---- MODULE Spec2Model ----
(***************************************************************************)
(* A model of rf_buybox.py: the retrying GET (rf_get), the offer selector  *)
(* (pick_buybox_from_offers), the reconciliation in fetch_asin, the text   *)
(* truncation (shorten) and the batch runner in main.                      *)
(*                                                                         *)
(* Five specifications share the variables; each one drives one part of    *)
(* the program and leaves the variables of the other parts untouched:      *)
(*   SpecRfGet      one call of rf_get, retry budget drawn from 0..MaxRetries *)
(*   SpecFetch      one call of fetch_asin (two rf_get calls, then the record) *)
(*   SpecReconcile  fetch_asin's parsing of two given response bodies      *)
(*   SpecShorten    one call of shorten                                    *)
(*   SpecBatch      main's CSV mode: the thread pool, the collection, the sort *)
(***************************************************************************)
EXTENDS Integers, Sequences, FiniteSets, TLC

VARIABLES
    \* rf_get: one call in progress
    retries,      \* the retries parameter
    rf_type,      \* params["type"]
    rf_pc,        \* "request" | "returned" | "raised"
    rf_i,         \* the loop index i
    rf_backoff,   \* the local backoff
    rf_sleeps,    \* the delays passed to time.sleep, in order
    rf_seen,      \* the status codes received, in order
    rf_err,       \* the status in the raised RuntimeError (0: none)
    net,          \* the requests sent, by type, in order
    \* fetch_asin: one call in progress
    f_pc,         \* "product" | "offers" | "done" | "failed"
    f_prod,       \* <<the product mapping>> once received, <<>> before
    f_offers,     \* <<the offers list>> once received, <<>> before
    f_row,        \* <<the returned record>>, <<>> before
    \* fetch_asin's parsing on its own
    rc_pc, rc_prod, rc_offers, rc_sel, rc_chosen, rc_rec,
    \* shorten
    sh_pc, sh_text, sh_limit, sh_out,
    \* main, CSV mode
    asins,        \* the identifiers read from the input file
    workers,      \* max(1, args.workers)
    fate,         \* what the server answers for each identifier
    t_pc,         \* per task: "queued" | "product" | "offers" | "done" | "collected"
    t_prod,       \* per task: <<the product mapping>> it holds, <<>> before
    t_res,        \* per task: <<the value of its future>>, <<>> before
    t_net,        \* per task: the number of requests it sent
    rows,         \* main's rows list
    out,          \* the list handed to write_csv
    m_pc          \* "collect" | "written"

rfVars    == <<retries, rf_type, rf_pc, rf_i, rf_backoff, rf_sleeps, rf_seen, rf_err, net>>
fetchVars == <<f_pc, f_prod, f_offers, f_row>>
recVars   == <<rc_pc, rc_prod, rc_offers, rc_sel, rc_chosen, rc_rec>>
shVars    == <<sh_pc, sh_text, sh_limit, sh_out>>
batchVars == <<asins, workers, fate, t_pc, t_prod, t_res, t_net, rows, out, m_pc>>
vars      == <<rfVars, fetchVars, recVars, shVars, batchVars>>

\* The value of the variables of a part that a specification does not drive.
Idle == "-"

RfIdle ==
    /\ retries = 0 /\ rf_type = Idle /\ rf_pc = Idle /\ rf_i = 0 /\ rf_backoff = 0
    /\ rf_sleeps = <<>> /\ rf_seen = <<>> /\ rf_err = 0 /\ net = <<>>
FetchIdle ==
    f_pc = Idle /\ f_prod = <<>> /\ f_offers = <<>> /\ f_row = <<>>
RecIdle ==
    /\ rc_pc = Idle /\ rc_prod = Idle /\ rc_offers = Idle
    /\ rc_sel = <<>> /\ rc_chosen = <<>> /\ rc_rec = <<>>
ShIdle ==
    sh_pc = Idle /\ sh_text = <<>> /\ sh_limit = 0 /\ sh_out = <<>>
BatchIdle ==
    /\ asins = <<>> /\ workers = 0 /\ fate = Idle /\ t_pc = <<>> /\ t_prod = <<>>
    /\ t_res = <<>> /\ t_net = <<>> /\ rows = <<>> /\ out = <<>> /\ m_pc = Idle

(***************************************************************************)
(* Bounds of the model.                                                    *)
(***************************************************************************)
MaxRetries == 3
MaxOffers == 3
MaxAmount == 4
MaxLen == 6
MaxLimit == 5
MaxAsins == 3
MaxWorkers == 2

(***************************************************************************)
(* rf_get                                                                  *)
(***************************************************************************)
\* The status codes the server is let to answer with.
Statuses == {200, 404, 429, 500, 501, 502, 503, 504}

\* The retries parameter's default.
DefaultRetries == 3

\* r.status_code in (429, 500, 502, 503, 504)
Retryable(s) == s \in {429, 500, 502, 503, 504}

\* i < retries
MayRetry(i, r) == i < r

\* A faulty variant: the delay grows by one.
NextBackoffLinear(b) == b + 1
\* backoff *= 2
NextBackoff(b) == b * 2

\* The call's locals at entry: backoff = 1.0, the loop about to start at i = 0.
RfEnter(type, r) ==
    /\ retries' = r
    /\ rf_type' = type
    /\ rf_pc' = "request"
    /\ rf_i' = 0
    /\ rf_backoff' = 1
    /\ rf_sleeps' = <<>>
    /\ rf_seen' = <<>>
    /\ rf_err' = 0

\* One iteration of the loop whose response is 200: return r.json().
RfReturn ==
    /\ rf_pc = "request"
    /\ rf_i <= retries
    /\ rf_seen' = Append(rf_seen, 200)
    /\ net' = Append(net, rf_type)
    /\ rf_pc' = "returned"
    /\ UNCHANGED <<retries, rf_type, rf_i, rf_backoff, rf_sleeps, rf_err>>

\* One iteration whose response is retryable with budget left: sleep, double, continue.
RfRetry ==
    /\ rf_pc = "request"
    /\ rf_i <= retries
    /\ \E s \in Statuses \ {200} :
        /\ Retryable(s) /\ MayRetry(rf_i, retries)
        /\ rf_seen' = Append(rf_seen, s)
    /\ net' = Append(net, rf_type)
    /\ rf_sleeps' = Append(rf_sleeps, rf_backoff)
    /\ rf_backoff' = NextBackoff(rf_backoff)
    /\ rf_i' = rf_i + 1
    /\ UNCHANGED <<retries, rf_type, rf_pc, rf_err>>

\* One iteration whose response is any other: raise RuntimeError("HTTP <status>: ...").
RfRaise ==
    /\ rf_pc = "request"
    /\ rf_i <= retries
    /\ \E s \in Statuses \ {200} :
        /\ ~(Retryable(s) /\ MayRetry(rf_i, retries))
        /\ rf_seen' = Append(rf_seen, s)
        /\ rf_err' = s
    /\ net' = Append(net, rf_type)
    /\ rf_pc' = "raised"
    /\ UNCHANGED <<retries, rf_type, rf_i, rf_backoff, rf_sleeps>>

\* requests.get itself raises (a timeout, a refused connection): the exception
\* leaves rf_get at once; no response, no sleep.
RfThrows ==
    /\ rf_pc = "request"
    /\ rf_i <= retries
    /\ net' = Append(net, rf_type)
    /\ rf_pc' = "raised"
    /\ UNCHANGED <<retries, rf_type, rf_i, rf_backoff, rf_sleeps, rf_seen, rf_err>>

InitRfGet ==
    /\ retries \in 0..MaxRetries
    /\ rf_type \in {"product", "offers"}
    /\ rf_pc = "request"
    /\ rf_i = 0
    /\ rf_backoff = 1
    /\ rf_sleeps = <<>>
    /\ rf_seen = <<>>
    /\ rf_err = 0
    /\ net = <<>>
    /\ FetchIdle /\ RecIdle /\ ShIdle /\ BatchIdle

NextRfGet ==
    \/ RfReturn /\ UNCHANGED <<fetchVars, recVars, shVars, batchVars>>
    \/ RfRetry /\ UNCHANGED <<fetchVars, recVars, shVars, batchVars>>
    \/ RfRaise /\ UNCHANGED <<fetchVars, recVars, shVars, batchVars>>
    \/ RfThrows /\ UNCHANGED <<fetchVars, recVars, shVars, batchVars>>

SpecRfGet == InitRfGet /\ [][NextRfGet]_vars

(***************************************************************************)
(* JSON values.  A scalar is a record of one shape so that any two can be  *)
(* compared: k is its kind, n its number, s its text.  "numstr" is a       *)
(* string that spells the number n ("19.99"); "str" is any other string.   *)
(* Amounts are whole numbers of half a billionth of a currency unit, so    *)
(* that the 1e-9 of the price comparison is Eps = 2 of them.               *)
(***************************************************************************)
None      == [k |-> "none", n |-> 0, s |-> ""]
Num(x)    == [k |-> "num", n |-> x, s |-> ""]
NumStr(x) == [k |-> "numstr", n |-> x, s |-> ""]
Str(t)    == [k |-> "str", n |-> 0, s |-> t]
Bool(b)   == [k |-> "bool", n |-> IF b THEN 1 ELSE 0, s |-> ""]

\* Python's truth value of a scalar (the left operand of "or").
Truthy(x) ==
    CASE x.k = "none"   -> FALSE
      [] x.k = "num"    -> x.n # 0
      [] x.k = "bool"   -> x.n = 1
      [] x.k = "str"    -> x.s # ""
      [] x.k = "numstr" -> TRUE

\* a or b
Or(a, b) == IF Truthy(a) THEN a ELSE b

\* x is True
IsTrue(x) == x.k = "bool" /\ x.n = 1

\* to_float: None stays None, a number or a string spelling one is that number
\* (float(True) is 1.0), anything else is None.
to_float(x) ==
    CASE x.k = "none"   -> None
      [] x.k = "num"    -> Num(x.n)
      [] x.k = "numstr" -> Num(x.n)
      [] x.k = "bool"   -> Num(x.n)
      [] x.k = "str"    -> None

\* A {value, currency} mapping, or (present = FALSE) a field that is missing,
\* None, or no mapping.
Money(v, c) == [present |-> TRUE, value |-> v, currency |-> c]
NoMoney     == [present |-> FALSE, value |-> None, currency |-> None]

\* extract_money: <<value, currency>>
extract_money(m) ==
    IF ~m.present THEN <<None, None>> ELSE <<to_float(m.value), m.currency>>

\* An offer.  save, savings and amazon_discount hold the "value" of the
\* mapping of that name (None when the mapping or its value is missing).
MkOffer(bw, ibw, price, rrp, save, savings, ad, sname, sid, prime) ==
    [buybox_winner |-> bw, is_buybox_winner |-> ibw, price |-> price, rrp |-> rrp,
     save |-> save, savings |-> savings, amazon_discount |-> ad,
     seller_name |-> sname, seller_id |-> sid, is_prime |-> prime]

\* What "(chosen or {})" reads as when there is no offer: every field missing.
EmptyOffer ==
    MkOffer(None, None, NoMoney, NoMoney, None, None, None, None, None, None)

\* The product view's buybox_winner mapping ("or {}": every field missing).
MkBB(price, save, savings, ad, sname, sid, prime) ==
    [price |-> price, save |-> save, savings |-> savings, amazon_discount |-> ad,
     seller_name |-> sname, seller_id |-> sid, is_prime |-> prime]
EmptyBB == MkBB(NoMoney, None, None, None, None, None, None)

\* prod.get("product") or {}
MkProduct(title, lp, savings, bb) ==
    [title |-> title, list_price |-> lp, savings |-> savings, buybox_winner |-> bb]
EmptyProduct == MkProduct(None, NoMoney, None, EmptyBB)

(***************************************************************************)
(* pick_buybox_from_offers                                                 *)
(***************************************************************************)
Min(S) == CHOOSE x \in S : \A y \in S : x <= y
Max(S) == CHOOSE x \in S : \A y \in S : x >= y

\* A faulty variant: any truthy flag counts.
IsWinnerTruthy(o) == Truthy(o.buybox_winner)
\* o.get("buybox_winner") is True
IsWinner(o) == IsTrue(o.buybox_winner)

\* next((o for o in offers if ...), None): <<>> is None
FirstWinner(offers) ==
    LET W == {i \in 1..Len(offers) : IsWinner(offers[i])}
    IN  IF W = {} THEN <<>> ELSE <<offers[Min(W)]>>

\* <<buybox_exists, bb, top>>; an absent offer is <<>>, a present one <<o>>.
pick_buybox_from_offers(offers) ==
    LET bb  == FirstWinner(offers)
        top == IF Len(offers) > 0 THEN <<offers[1]>> ELSE <<>>
    IN  <<bb # <<>>, bb, top>>

\* chosen = bb_offer if buybox_exists else top_offer
ChosenOffer(sel) == IF sel[1] THEN sel[2] ELSE sel[3]

(***************************************************************************)
(* fetch_asin, after both responses                                        *)
(***************************************************************************)
\* The 1e-9 of the comparison, in the amounts' unit.
Eps == 2

\* A faulty variant: no tolerance.
IsCheaperNoEps(price, rrp) == price < rrp
\* price_val < (rrp_val - 1e-9)
IsCheaper(price, rrp) == price < rrp - Eps

\* v > 0
SignalSays(v) == v.n > 0

\* A faulty variant: the offer's save ahead of the product savings.
CandidatesOfferFirst(psv, c, bb) ==
    << to_float(c.save), psv, to_float(c.savings), to_float(c.amazon_discount),
       to_float(bb.save), to_float(bb.savings), to_float(bb.amazon_discount) >>
\* The candidates list, in the code's order.
Candidates(psv, c, bb) ==
    << psv,
       to_float(c.save), to_float(c.savings), to_float(c.amazon_discount),
       to_float(bb.save), to_float(bb.savings), to_float(bb.amazon_discount) >>

\* for v in candidates: if v is not None: discounted = v > 0; break
FirstSignal(cands) ==
    LET P == {i \in 1..Len(cands) : cands[i] # None}
    IN  IF P = {} THEN None ELSE Bool(SignalSays(cands[Min(P)]))

\* The record fetch_asin returns for product mapping p, given the selector's
\* buybox_exists and the chosen offer (<<>> when there is none).
Resolve(p, exists, chosen) ==
    LET title       == p.title
        product_rrp == extract_money(p.list_price)
        psv         == to_float(p.savings)
        bb_prod     == p.buybox_winner
        c           == IF chosen # <<>> THEN chosen[1] ELSE EmptyOffer
        price1      == extract_money(c.price)
        price       == IF price1[1] = None THEN extract_money(bb_prod.price) ELSE price1
        seller_name == Or(c.seller_name, bb_prod.seller_name)
        seller_id   == Or(c.seller_id, bb_prod.seller_id)
        prime       == IF c.is_prime = None THEN bb_prod.is_prime ELSE c.is_prime
        chosen_rrp  == extract_money(c.rrp)
        rrp_val     == IF chosen_rrp[1] # None THEN chosen_rrp[1] ELSE product_rrp[1]
        rrp_ccy     == IF chosen_rrp[2] # None THEN chosen_rrp[2] ELSE product_rrp[2]
        discounted  == IF rrp_val # None /\ price[1] # None
                       THEN Bool(IsCheaper(price[1].n, rrp_val.n))
                       ELSE FirstSignal(Candidates(psv, c, bb_prod))
    IN  [product_name |-> title, price |-> price[1], currency |-> price[2],
         buybox_exists |-> exists, seller_name |-> seller_name,
         seller_id |-> seller_id, prime |-> prime, discounted |-> discounted,
         rrp |-> rrp_val, rrp_currency |-> rrp_ccy]

\* fetch_asin's lines after the two rf_get calls, for the two bodies.
fetch_record(p, offers) ==
    LET sel == pick_buybox_from_offers(offers)
    IN  Resolve(p, sel[1], ChosenOffer(sel))

(***************************************************************************)
(* SpecReconcile: the parsing applied to bounded response bodies.          *)
(***************************************************************************)
\* Offers lists that differ in the buy-box flags; offer i is priced i.
FlagVals == {None, Bool(TRUE), Bool(FALSE), Num(1)}
SelectionInput ==
    \E n \in 0..MaxOffers :
      \E bw \in [1..n -> FlagVals], ibw \in [1..n -> {None, Bool(TRUE)}] :
        /\ rc_prod = EmptyProduct
        /\ rc_offers = [i \in 1..n |->
                          MkOffer(bw[i], ibw[i], Money(Num(i), Str("GBP")), NoMoney,
                                  None, None, None, None, None, None)]

\* One offer at most; price and RRP present or missing at each source.  The
\* offer's RRP is MaxAmount - 1 in USD, the product's list price MaxAmount in GBP.
PriceVals    == {None} \cup {Num(a) : a \in 0..MaxAmount}
OfferRrps    == {NoMoney} \cup
                { Money(v, c) : v \in {None, Str("n/a"), Num(MaxAmount - 1)},
                                c \in {None, Str("USD")} }
ProductRrps  == {NoMoney} \cup
                { Money(v, c) : v \in {None, NumStr(MaxAmount)},
                                c \in {None, Str("GBP")} }
BBPrices     == {NoMoney, Money(Num(1), Str("EUR"))}
PriceRrpInput ==
    \E pv \in PriceVals, orrp \in OfferRrps, prrp \in ProductRrps, bbp \in BBPrices,
       psv \in {None, Num(0), Num(1)}, save \in {None, Num(1)}, has \in BOOLEAN :
        /\ rc_prod = MkProduct(Str("Kettle"), prrp, psv,
                               MkBB(bbp, None, None, None, Str("Acme"), Str("A1"), Bool(TRUE)))
        /\ rc_offers =
             IF has
             THEN << MkOffer(None, None, Money(pv, Str("USD")), orrp, save, None, None,
                             Str(""), Str("S9"), Bool(FALSE)) >>
             ELSE <<>>

\* The seven savings-like signals, with the price or the RRP (or both) missing.
SigVals == {None, Num(-1), Num(0), Num(1)}
SignalInput ==
    \E sg \in [1..7 -> SigVals], junk \in BOOLEAN, miss \in {"price", "rrp", "both"} :
        /\ rc_prod = MkProduct(None,
                               IF miss = "price" THEN Money(Num(MaxAmount), Str("GBP"))
                                                 ELSE NoMoney,
                               IF junk /\ sg[1] = None THEN Str("n/a") ELSE sg[1],
                               MkBB(NoMoney, sg[5], sg[6], sg[7], None, None, None))
        /\ rc_offers =
             << MkOffer(Bool(TRUE), None,
                        IF miss = "rrp" THEN Money(Num(1), Str("GBP")) ELSE NoMoney,
                        NoMoney, sg[2], sg[3], sg[4], None, None, None) >>

InitReconcile ==
    /\ rc_pc = "input"
    /\ SelectionInput \/ PriceRrpInput \/ SignalInput
    /\ rc_sel = <<>> /\ rc_chosen = <<>> /\ rc_rec = <<>>
    /\ RfIdle /\ FetchIdle /\ ShIdle /\ BatchIdle

\* buybox_exists, bb_offer, top_offer = pick_buybox_from_offers(offers); chosen = ...
RcSelect ==
    /\ rc_pc = "input"
    /\ rc_sel' = pick_buybox_from_offers(rc_offers)
    /\ rc_chosen' = ChosenOffer(pick_buybox_from_offers(rc_offers))
    /\ rc_pc' = "chosen"
    /\ UNCHANGED <<rc_prod, rc_offers, rc_rec>>

\* The rest of fetch_asin, down to its return.
RcResolve ==
    /\ rc_pc = "chosen"
    /\ rc_rec' = <<Resolve(rc_prod, rc_sel[1], rc_chosen)>>
    /\ rc_pc' = "done"
    /\ UNCHANGED <<rc_prod, rc_offers, rc_sel, rc_chosen>>

NextReconcile ==
    \/ RcSelect /\ UNCHANGED <<rfVars, fetchVars, shVars, batchVars>>
    \/ RcResolve /\ UNCHANGED <<rfVars, fetchVars, shVars, batchVars>>

SpecReconcile == InitReconcile /\ [][NextReconcile]_vars

(***************************************************************************)
(* shorten.  A text is a sequence of characters; the ellipsis is one.      *)
(***************************************************************************)
Alphabet == {"a", "b", " ", "\n"}
IsSpace(ch) == ch \in {" ", "\n"}
\* The one character U+2026 the code appends.
Ellipsis == "..."

\* str.split(): the maximal runs of non-whitespace characters, in order.
RECURSIVE SplitFrom(_, _, _, _)
SplitFrom(t, i, cur, acc) ==
    IF i > Len(t)
    THEN IF cur = <<>> THEN acc ELSE Append(acc, cur)
    ELSE IF IsSpace(t[i])
         THEN SplitFrom(t, i + 1, <<>>, IF cur = <<>> THEN acc ELSE Append(acc, cur))
         ELSE SplitFrom(t, i + 1, Append(cur, t[i]), acc)
Split(t) == SplitFrom(t, 1, <<>>, <<>>)

\* " ".join(words)
RECURSIVE Join(_)
Join(ws) ==
    IF ws = <<>> THEN <<>>
    ELSE IF Len(ws) = 1 THEN ws[1]
    ELSE ws[1] \o <<" ">> \o Join(Tail(ws))

\* t[:n]
Take(t, n) == SubSeq(t, 1, IF n < Len(t) THEN n ELSE Len(t))

\* t.rsplit(" ", 1)[0]: what precedes the last space, or all of t without one.
RSplitHead(t) ==
    LET S == {i \in 1..Len(t) : t[i] = " "}
    IN  IF S = {} THEN t ELSE SubSeq(t, 1, Max(S) - 1)

shorten(text, max_len) ==
    IF text = <<>> THEN text
    ELSE LET t == Join(Split(text))
         IN  IF Len(t) <= max_len THEN t
             ELSE LET cut == RSplitHead(Take(t, max_len))
                  IN  (IF cut # <<>> THEN cut ELSE Take(t, max_len)) \o <<Ellipsis>>

InitShorten ==
    /\ sh_pc = "call"
    /\ sh_text \in UNION {[1..n -> Alphabet] : n \in 0..MaxLen}
    /\ sh_limit \in 1..MaxLimit
    /\ sh_out = <<>>
    /\ RfIdle /\ FetchIdle /\ RecIdle /\ BatchIdle

Shorten ==
    /\ sh_pc = "call"
    /\ sh_out' = shorten(sh_text, sh_limit)
    /\ sh_pc' = "done"
    /\ UNCHANGED <<sh_text, sh_limit>>

NextShorten == Shorten /\ UNCHANGED <<rfVars, fetchVars, recVars, batchVars>>

SpecShorten == InitShorten /\ [][NextShorten]_vars

(***************************************************************************)
(* The server's data, for fetch_asin and the batch.                        *)
(***************************************************************************)
Ids == {"A", "B"}

\* The product view of an identifier.
ProductOf(a) ==
    IF a = "A"
    THEN MkProduct(Str("Kettle"), Money(Num(4), Str("GBP")), None, EmptyBB)
    ELSE MkProduct(Str("Mug"), NoMoney, Num(1),
                   MkBB(Money(Num(2), Str("GBP")), None, None, None,
                        Str("Bolt"), Str("B7"), Bool(FALSE)))

\* The offers view of an identifier.
OffersOf(a) ==
    IF a = "A"
    THEN << MkOffer(Bool(TRUE), None, Money(Num(1), Str("GBP")), NoMoney,
                    None, None, None, Str("Acme"), Str("A1"), Bool(TRUE)) >>
    ELSE <<>>

(***************************************************************************)
(* SpecFetch: one call of fetch_asin, request by request.                  *)
(***************************************************************************)
InitFetch ==
    /\ retries = DefaultRetries
    /\ rf_type = "product"
    /\ rf_pc = "request"
    /\ rf_i = 0
    /\ rf_backoff = 1
    /\ rf_sleeps = <<>>
    /\ rf_seen = <<>>
    /\ rf_err = 0
    /\ net = <<>>
    /\ f_pc = "product"
    /\ f_prod = <<>> /\ f_offers = <<>> /\ f_row = <<>>
    /\ RecIdle /\ ShIdle /\ BatchIdle

\* The product call returned: p = prod.get("product") or {}, then the offers call.
FetchGotProduct ==
    /\ f_pc = "product" /\ rf_pc = "returned"
    /\ \E a \in Ids : f_prod' = <<ProductOf(a)>>
    /\ RfEnter("offers", DefaultRetries)
    /\ f_pc' = "offers"
    /\ UNCHANGED <<net, f_offers, f_row>>

\* The offers call returned: the rest of fetch_asin, down to its return.
FetchGotOffers ==
    /\ f_pc = "offers" /\ rf_pc = "returned"
    /\ \E a \in Ids :
        /\ f_offers' = <<OffersOf(a)>>
        /\ f_row' = <<fetch_record(f_prod[1], OffersOf(a))>>
    /\ f_pc' = "done"
    /\ UNCHANGED <<rfVars, f_prod>>

\* A faulty variant: a failed product call is swallowed and the offers call made.
FetchFailsGoesOn ==
    /\ f_pc = "product" /\ rf_pc = "raised"
    /\ RfEnter("offers", DefaultRetries)
    /\ f_pc' = "offers"
    /\ UNCHANGED <<net, f_prod, f_offers, f_row>>
\* Either call raised: nothing in fetch_asin catches it.
FetchFails ==
    /\ f_pc \in {"product", "offers"} /\ rf_pc = "raised"
    /\ f_pc' = "failed"
    /\ UNCHANGED <<rfVars, f_prod, f_offers, f_row>>

NextFetch ==
    \/ RfReturn /\ UNCHANGED <<fetchVars, recVars, shVars, batchVars>>
    \/ RfRetry /\ UNCHANGED <<fetchVars, recVars, shVars, batchVars>>
    \/ RfRaise /\ UNCHANGED <<fetchVars, recVars, shVars, batchVars>>
    \/ RfThrows /\ UNCHANGED <<fetchVars, recVars, shVars, batchVars>>
    \/ FetchGotProduct /\ UNCHANGED <<recVars, shVars, batchVars>>
    \/ FetchGotOffers /\ UNCHANGED <<recVars, shVars, batchVars>>
    \/ FetchFails /\ UNCHANGED <<recVars, shVars, batchVars>>

SpecFetch == InitFetch /\ [][NextFetch]_vars

(***************************************************************************)
(* SpecBatch: main's CSV mode.  Each task runs fetch_asin in a pool thread; *)
(* a task's two rf_get calls are each one step, answered by the server     *)
(* according to the identifier's fate.                                     *)
(***************************************************************************)
Fates == {"ok", "flaky", "dead", "no_offers"}

\* The status codes the server answers a request of a type with, in order; the
\* last one is repeated for as long as the client asks.
ScriptOf(f, type) ==
    CASE f = "ok"        -> <<200>>
      [] f = "flaky"     -> IF type = "product" THEN <<503, 200>> ELSE <<429, 502, 200>>
      [] f = "dead"      -> IF type = "product" THEN <<500>> ELSE <<200>>
      [] f = "no_offers" -> IF type = "product" THEN <<200>> ELSE <<404>>
StatusAt(script, k) == script[IF k < Len(script) THEN k ELSE Len(script)]

\* A whole call of rf_get against a script: the loop from index i on.
RECURSIVE RfLoop(_, _, _, _, _)
RfLoop(script, r, i, backoff, sleeps) ==
    IF i > r
    THEN \* range(retries + 1) is exhausted: the function falls off its end
         [pc |-> "none", err |-> 0, nreq |-> i, sleeps |-> sleeps]
    ELSE LET st == StatusAt(script, i + 1)
         IN  IF st = 200
             THEN [pc |-> "returned", err |-> 0, nreq |-> i + 1, sleeps |-> sleeps]
             ELSE IF Retryable(st) /\ MayRetry(i, r)
             THEN RfLoop(script, r, i + 1, NextBackoff(backoff), Append(sleeps, backoff))
             ELSE [pc |-> "raised", err |-> st, nreq |-> i + 1, sleeps |-> sleeps]
rf_get(script, r) == RfLoop(script, r, 0, 1, <<>>)

\* str(e) of the RuntimeError rf_get raises: "HTTP <status>: ..."
ErrorText(status) == [k |-> "str", n |-> status, s |-> "HTTP"]

\* d = fetch_asin(...); d["asin"] = a; d["_idx"] = idx
OkRow(a, idx, d) == d @@ ("asin" :> a) @@ ("_idx" :> idx)

\* A faulty variant: the error row carries a blank price.
ErrorRowBlanks(a, idx, e) ==
    ("asin" :> a) @@ ("error" :> e) @@ ("_idx" :> idx) @@ ("price" :> None)
\* {"asin": a, "error": str(e), "_idx": idx}
ErrorRow(a, idx, e) == ("asin" :> a) @@ ("error" :> e) @@ ("_idx" :> idx)

\* list.sort(key=...): stable, ascending.
RECURSIVE InsertByIdx(_, _)
InsertByIdx(r, sorted) ==
    IF sorted = <<>> THEN <<r>>
    ELSE IF r["_idx"] < sorted[1]["_idx"] THEN <<r>> \o sorted
    ELSE <<sorted[1]>> \o InsertByIdx(r, Tail(sorted))
RECURSIVE SortFrom(_, _, _)
SortFrom(rs, i, acc) ==
    IF i > Len(rs) THEN acc ELSE SortFrom(rs, i + 1, InsertByIdx(rs[i], acc))

\* A faulty variant: the rows stay in arrival order.
SortNone(rs) == rs
\* rows.sort(key=lambda r: r.get("_idx", 0))
SortByIdx(rs) == SortFrom(rs, 1, <<>>)

\* r.pop("_idx", None)
PopIdx(r) == [f \in DOMAIN r \ {"_idx"} |-> r[f]]

Tasks == 1..Len(asins)
Running == {i \in Tasks : t_pc[i] \in {"product", "offers"}}

InitBatch ==
    /\ asins \in UNION {[1..n -> Ids] : n \in 0..MaxAsins}
    /\ workers \in 1..MaxWorkers
    /\ fate \in [Ids -> Fates]
    /\ t_pc = [i \in 1..Len(asins) |-> "queued"]
    /\ t_prod = [i \in 1..Len(asins) |-> <<>>]
    /\ t_res = [i \in 1..Len(asins) |-> <<>>]
    /\ t_net = [i \in 1..Len(asins) |-> 0]
    /\ rows = <<>>
    /\ out = <<>>
    /\ m_pc = "collect"
    /\ RfIdle /\ FetchIdle /\ RecIdle /\ ShIdle

\* A pool thread is free and task i is the oldest one queued.
CanStart(i) ==
    /\ t_pc[i] = "queued"
    /\ \A j \in Tasks : j < i => t_pc[j] # "queued"
    /\ Cardinality(Running) < workers

\* Task i's future is done and main has not taken it yet.
CanCollect(i) == m_pc = "collect" /\ t_pc[i] = "done"

\* as_completed has yielded every future: the with block ends.
AllCollected == m_pc = "collect" /\ \A i \in Tasks : t_pc[i] = "collected"

\* A free pool thread takes the oldest queued task.
TaskStart(i) ==
    /\ CanStart(i)
    /\ t_pc' = [t_pc EXCEPT ![i] = "product"]
    /\ UNCHANGED <<asins, workers, fate, t_prod, t_res, t_net, rows, out, m_pc>>

\* task: fetch_asin's product call; an exception ends the task with the error row.
TaskProduct(i) ==
    /\ t_pc[i] = "product"
    /\ LET res == rf_get(ScriptOf(fate[asins[i]], "product"), DefaultRetries)
       IN  /\ t_net' = [t_net EXCEPT ![i] = @ + res.nreq]
           /\ IF res.pc = "returned"
              THEN /\ t_prod' = [t_prod EXCEPT ![i] = <<ProductOf(asins[i])>>]
                   /\ t_pc' = [t_pc EXCEPT ![i] = "offers"]
                   /\ UNCHANGED t_res
              ELSE /\ t_res' = [t_res EXCEPT ![i] = <<ErrorRow(asins[i], i - 1, ErrorText(res.err))>>]
                   /\ t_pc' = [t_pc EXCEPT ![i] = "done"]
                   /\ UNCHANGED t_prod
    /\ UNCHANGED <<asins, workers, fate, rows, out, m_pc>>

\* task: fetch_asin's offers call and the rest of it, or the error row.
TaskOffers(i) ==
    /\ t_pc[i] = "offers"
    /\ LET res == rf_get(ScriptOf(fate[asins[i]], "offers"), DefaultRetries)
       IN  /\ t_net' = [t_net EXCEPT ![i] = @ + res.nreq]
           /\ t_res' = [t_res EXCEPT ![i] =
                          IF res.pc = "returned"
                          THEN <<OkRow(asins[i], i - 1,
                                       fetch_record(t_prod[i][1], OffersOf(asins[i])))>>
                          ELSE <<ErrorRow(asins[i], i - 1, ErrorText(res.err))>>]
    /\ t_pc' = [t_pc EXCEPT ![i] = "done"]
    /\ UNCHANGED <<asins, workers, fate, t_prod, rows, out, m_pc>>

\* for fut in as_completed(futures): rows.append(fut.result())
Collect(i) ==
    /\ CanCollect(i)
    /\ rows' = Append(rows, t_res[i][1])
    /\ t_pc' = [t_pc EXCEPT ![i] = "collected"]
    /\ UNCHANGED <<asins, workers, fate, t_prod, t_res, t_net, out, m_pc>>

\* After the pool: sort, drop _idx, write_csv(rows, ...).
SortAndWrite ==
    /\ AllCollected
    /\ out' = [j \in 1..Len(rows) |-> PopIdx(SortByIdx(rows)[j])]
    /\ m_pc' = "written"
    /\ UNCHANGED <<asins, workers, fate, t_pc, t_prod, t_res, t_net, rows>>

NextBatch ==
    \/ \E i \in Tasks : TaskStart(i) /\ UNCHANGED <<rfVars, fetchVars, recVars, shVars>>
    \/ \E i \in Tasks : TaskProduct(i) /\ UNCHANGED <<rfVars, fetchVars, recVars, shVars>>
    \/ \E i \in Tasks : TaskOffers(i) /\ UNCHANGED <<rfVars, fetchVars, recVars, shVars>>
    \/ \E i \in Tasks : Collect(i) /\ UNCHANGED <<rfVars, fetchVars, recVars, shVars>>
    \/ SortAndWrite /\ UNCHANGED <<rfVars, fetchVars, recVars, shVars>>

SpecBatch == InitBatch /\ [][NextBatch]_vars

(***************************************************************************)
(* The claims.                                                             *)
(***************************************************************************)
Count(seq, x) == Cardinality({j \in 1..Len(seq) : seq[j] = x})
All503(seq) == \A j \in 1..Len(seq) : seq[j] = 503
RECURSIVE Pow2(_)
Pow2(n) == IF n <= 0 THEN 1 ELSE 2 * Pow2(n - 1)

\* C1: in batch mode the list handed to the CSV writer has one row per input
\* identifier, and its i-th row carries the i-th input identifier, whatever the
\* worker count and the order in which the tasks completed and were collected.
C1_RowOrderIsInputOrder ==
    m_pc = "written" =>
        /\ Len(out) = Len(asins)
        /\ \A i \in 1..Len(asins) :
            /\ out[i]["asin"] = asins[i]
            /\ "_idx" \notin DOMAIN out[i]

\* C1's case: three identifiers, two workers, and the last task collected first.
C1_Witness ==
    /\ m_pc = "written"
    /\ Len(asins) = 3 /\ workers = 2
    /\ asins[1] # asins[3]
    /\ rows[1]["_idx"] = 2
    /\ out[3]["asin"] = asins[3]

\* C2: a failing identifier's row holds the identifier and the error message and
\* nothing else; every other identifier is still fetched and gets the row its
\* own responses give; the batch never stops short of writing its rows (before
\* the write, a task can start or run on, or main can collect or sort and write).
C2_FailureIsolation ==
    /\ m_pc = "collect" =>
        \/ AllCollected
        \/ \E i \in 1..Len(asins) :
              CanStart(i) \/ t_pc[i] \in {"product", "offers"} \/ CanCollect(i)
    /\ m_pc = "written" =>
        /\ Len(out) = Len(asins)
        /\ \A i \in 1..Len(asins) :
            LET a == asins[i]
                f == fate[a]
            IN  /\ t_net[i] >= 1
                /\ f \in {"dead", "no_offers"} =>
                    /\ DOMAIN out[i] = {"asin", "error"}
                    /\ out[i]["asin"] = a
                    /\ out[i]["error"] = ErrorText(IF f = "dead" THEN 500 ELSE 404)
                /\ f \in {"ok", "flaky"} =>
                    /\ "error" \notin DOMAIN out[i]
                    /\ out[i] = fetch_record(ProductOf(a), OffersOf(a)) @@ ("asin" :> a)

\* C2's case: a dead identifier ahead of a healthy one in the same batch.
C2_Witness ==
    /\ m_pc = "written"
    /\ \E i, j \in 1..Len(asins) :
        /\ i < j
        /\ fate[asins[i]] = "dead" /\ fate[asins[j]] = "ok"
        /\ DOMAIN out[i] = {"asin", "error"}
        /\ "price" \in DOMAIN out[j] /\ out[j]["price"] # None

\* C3: rf_get sends at most retries + 1 requests; 503s followed by a 200 succeed
\* after one sleep per 503, the j-th of 2^(j-1); retries + 1 503s fail with
\* status 503 after exactly retries sleeps and no further request.
C3_RetryBudgetAndBackoff ==
    /\ Len(rf_seen) <= retries + 1
    /\ Len(net) <= retries + 1
    /\ (rf_pc = "returned" /\ All503(SubSeq(rf_seen, 1, Len(rf_seen) - 1))) =>
        /\ rf_seen[Len(rf_seen)] = 200
        /\ Len(rf_sleeps) = Len(rf_seen) - 1
        /\ \A j \in 1..Len(rf_sleeps) : rf_sleeps[j] = Pow2(j - 1)
    /\ (Len(rf_seen) = retries + 1 /\ All503(rf_seen)) =>
        /\ rf_pc = "raised"
        /\ rf_err = 503
        /\ Len(rf_sleeps) = retries
        /\ \A j \in 1..Len(rf_sleeps) : rf_sleeps[j] = Pow2(j - 1)
        /\ Len(net) = retries + 1

\* C3's case: budget 3, three 503s and then a 200.
C3_Witness ==
    /\ retries = 3
    /\ rf_pc = "returned"
    /\ rf_seen = <<503, 503, 503, 200>>
    /\ rf_sleeps = <<1, 2, 4>>

\* C4 (as claimed): a response of status 429 or of any status 500..599 that
\* arrives with budget left is never the one rf_get fails on, and a sleep only
\* ever follows such a response.
C4_RetriesOn429AndAny5xx ==
    /\ (rf_pc = "raised" /\ rf_err # 0) =>
          ~((rf_err = 429 \/ rf_err \in 500..599) /\ rf_i < retries)
    /\ \A j \in 1..Len(rf_sleeps) : rf_seen[j] = 429 \/ rf_seen[j] \in 500..599

\* C10: the requests of one fetch_asin call are the product requests and then
\* the offers requests, at most retries + 1 of each; an offers request is sent
\* only after the product call returned; the record exists only after both did.
C10_ProductThenOffers ==
    /\ Len(net) <= 2 * (DefaultRetries + 1)
    /\ Count(net, "product") <= DefaultRetries + 1
    /\ Count(net, "offers") <= DefaultRetries + 1
    /\ \A j, k \in 1..Len(net) : (j < k /\ net[j] = "offers") => net[k] = "offers"
    /\ Count(net, "offers") > 0 => f_prod # <<>>
    /\ rf_type = "offers" => f_prod # <<>>
    /\ (f_pc = "failed" /\ f_prod = <<>>) => Count(net, "offers") = 0
    /\ f_row # <<>> =>
        /\ f_pc = "done"
        /\ f_prod # <<>> /\ f_offers # <<>>
        /\ rf_pc = "returned"

\* C10's case: both calls used their whole budget and succeeded, 8 requests.
C10_Witness ==
    /\ f_pc = "done"
    /\ f_row # <<>>
    /\ Len(net) = 2 * (DefaultRetries + 1)

\* The offers whose field of the given name is exactly true, by position.
WinnersBy(offers, field) ==
    {i \in 1..Len(offers) : offers[i][field] = Bool(TRUE)}

\* What the selector must have returned if the buy-box flag is the named field.
SelectsBy(field) ==
    LET W == WinnersBy(rc_offers, field)
    IN  /\ rc_sel[1] = (W # {})
        /\ W = {} => rc_sel[2] = <<>>
        /\ \A i \in W : (\A j \in W : i <= j) => rc_sel[2] = <<rc_offers[i]>>
        /\ rc_chosen = IF W # {} THEN rc_sel[2]
                       ELSE IF Len(rc_offers) > 0 THEN <<rc_offers[1]>>
                       ELSE <<>>
        /\ rc_pc = "done" => rc_rec[1].buybox_exists = (W # {})

ChosenOrEmpty == IF rc_chosen = <<>> THEN EmptyOffer ELSE rc_chosen[1]

\* C6 (as claimed): the record's RRP value and RRP currency are together the
\* chosen offer's rrp pair or together the product's list_price pair.
C6_RrpPairFromOneSource ==
    rc_pc = "done" =>
        <<rc_rec[1].rrp, rc_rec[1].rrp_currency>> \in
            { extract_money(ChosenOrEmpty.rrp), extract_money(rc_prod.list_price) }

\* C7: with the resolved RRP and the resolved price both present, discounted is
\* (price < rrp - 1e-9), whatever the savings-like fields say.
C7_DiscountedByComparison ==
    (rc_pc = "done" /\ rc_rec[1].rrp # None /\ rc_rec[1].price # None) =>
        rc_rec[1].discounted = Bool(rc_rec[1].price.n < rc_rec[1].rrp.n - Eps)

\* C7's case: a price less than 1e-9 below the RRP, with a positive product
\* savings and a positive offer save: not discounted.
C7_Witness ==
    /\ rc_pc = "done"
    /\ rc_rec[1].rrp # None /\ rc_rec[1].price # None
    /\ rc_rec[1].price.n = rc_rec[1].rrp.n - 1
    /\ rc_prod.savings = Num(1)
    /\ ChosenOrEmpty.save = Num(1)
    /\ rc_rec[1].discounted = Bool(FALSE)

\* The seven signals in the claimed order, normalised.
ClaimedSignals ==
    LET c  == ChosenOrEmpty
        bb == rc_prod.buybox_winner
    IN  << to_float(rc_prod.savings),
           to_float(c.save), to_float(c.savings), to_float(c.amazon_discount),
           to_float(bb.save), to_float(bb.savings), to_float(bb.amazon_discount) >>

\* C8: with the resolved RRP or the resolved price missing, discounted is decided
\* by the first present signal of the list (true if > 0, false if <= 0), and is
\* None exactly when no signal is present.
C8_DiscountedByFirstSignal ==
    (rc_pc = "done" /\ (rc_rec[1].rrp = None \/ rc_rec[1].price = None)) =>
        LET sig == ClaimedSignals
        IN  /\ (rc_rec[1].discounted = None) <=> (\A i \in 1..7 : sig[i] = None)
            /\ \A i \in 1..7 :
                 (sig[i] # None /\ \A j \in 1..(i - 1) : sig[j] = None) =>
                     /\ sig[i].n > 0 => rc_rec[1].discounted = Bool(TRUE)
                     /\ sig[i].n <= 0 => rc_rec[1].discounted = Bool(FALSE)

\* C8's case: no price; the product savings is missing, the offer's save is 0 and
\* its savings positive: the 0 decides.
C8_Witness ==
    /\ rc_pc = "done"
    /\ rc_rec[1].price = None
    /\ ClaimedSignals[1] = None
    /\ ClaimedSignals[2] = Num(0)
    /\ ClaimedSignals[3] = Num(1)
    /\ rc_rec[1].discounted = Bool(FALSE)

\* k characters of t end on a word: the k-th is no space and a space or the end
\* of t follows it.
WordEndsAt(t, k) ==
    /\ k >= 1 /\ k <= Len(t)
    /\ t[k] # " "
    /\ (k = Len(t) \/ t[k + 1] = " ")

\* C9 (as claimed): the collapsed text is returned as it is when it fits; a
\* longer one whose first word fits becomes its longest prefix of whole words
\* of at most limit characters, a word ending exactly at the limit included,
\* followed by the ellipsis.
C9_LongestWholeWordPrefix ==
    sh_pc = "done" =>
        LET t == Join(Split(sh_text))
            K == {k \in 1..sh_limit : WordEndsAt(t, k)}
        IN  /\ Len(t) <= sh_limit => sh_out = t
            /\ (Len(t) > sh_limit /\ K # {}) =>
                   sh_out = SubSeq(t, 1, Max(K)) \o <<Ellipsis>>

====
